---- MODULE Spec2Model ----
(***************************************************************************)
(* SoupAIDD: the Trainer script (src/train_model.py) and the Predictor     *)
(* script (src/predict.py) as one-shot processes over the flat files they  *)
(* share: history_cleaned.csv, the three model artifacts and               *)
(* predictions_log.txt.                                                     *)
(*                                                                         *)
(* Conventions.  Class indices are 0-based as in NumPy; TLA+ sequences are *)
(* 1-based, so classes_[i] of the code is classes[i + 1] here.             *)
(* Probabilities are integers in units of 1/ProbScale.  The classifier     *)
(* (RandomForestClassifier) is an external collaborator: its outputs are   *)
(* nondeterministic choices.  The rows of the history file are a bag: no   *)
(* modelled code depends on the order of the rows.                         *)
(***************************************************************************)
EXTENDS Integers, Sequences, FiniteSets, Bags, TLC

(***************************** bounds ***************************************)
MaxRuns == 3
MaxRecords == 16
MaxSmallHistory == 2
MaxLookupRecords == 3
ProbScale == 4

(************************* program constants ********************************)
\* The threshold the stale comment of train_model.py 47 still describes.
EvalThresholdTen == 10
EvalThreshold == 15
TopK == 3
DefaultWeatherCode == 2
DefaultTemp == 20
DefaultFeedback == 75
ColdBelow == 15
HotAbove == 28
LowWeatherMax == 1

(***************************** data *****************************************)
\* Soup names in lexicographic order (the order LabelEncoder sorts them in).
SoupOrder == <<"carrot_soup", "lotus_soup", "melon_soup", "ribs_soup">>
SoupNames == {SoupOrder[i] : i \in 1..Len(SoupOrder)}

\* Ingredient names that may occur as columns of the history file.
IngredientNames == {"ribs", "corn", "carrot"}
\* A name the user may type that no schema knows.
UnknownIngredient == "lobster"

\* A column name: an ingredient column is the prefix followed by the name.
Col(prefix, name) == [prefix |-> prefix, name |-> name]
startswith_ingredient(col) == col.prefix = "ingredient_"
strip_prefix(col) == col.name

\* One line of console output: a tag, the strings and the number it shows.
Line(tag, items, num) == [tag |-> tag, items |-> items, num |-> num]

RECURSIVE SumCopies(_, _)
SumCopies(B, S) ==
  IF S = {} THEN 0
  ELSE LET x == CHOOSE y \in S : TRUE
       IN  CopiesIn(x, B) + SumCopies(B, S \ {x})

\* len(df[cond]): the number of rows of bag B whose kind is in S.
RowCount(B, S) == SumCopies(B, BagToSet(B) \cap S)
len(B) == SumCopies(B, BagToSet(B))

RECURSIVE SelectSeqIn(_, _)
SelectSeqIn(s, S) ==
  IF s = <<>> THEN <<>>
  ELSE (IF Head(s) \in S THEN <<Head(s)>> ELSE <<>>) \o SelectSeqIn(Tail(s), S)

Range(s) == {s[i] : i \in 1..Len(s)}
Reverse(s) == [i \in 1..Len(s) |-> s[Len(s) + 1 - i]]
Max(a, b) == IF a >= b THEN a ELSE b

VARIABLES
  historyExists,   \* history_cleaned.csv is on disk
  historyCols,     \* its ingredient columns, in file order
  historyRows,     \* its rows: a bag of [soup, ings]
  modelFile,       \* soup_predictor_model.pkl
  encoderFile,     \* label_encoder.pkl
  featureFile,     \* feature_columns.pkl
  logWritable,     \* predictions_log.txt can be opened for append
  log,             \* the lines of predictions_log.txt
  runs,            \* processes started so far
  active,          \* the one process running, if any
  tr,              \* the Trainer process
  pr               \* the Predictor process

disk == <<historyExists, historyCols, historyRows, modelFile, encoderFile,
          featureFile, logWritable, log>>
artifacts == <<modelFile, encoderFile, featureFile>>
history == <<historyExists, historyCols, historyRows>>
vars == <<historyExists, historyCols, historyRows, modelFile, encoderFile,
          featureFile, logWritable, log, runs, active, tr, pr>>

\* An absent artifact file.
Absent == [run |-> 0, classes |-> <<>>, schema |-> <<>>]
\* What joblib.dump leaves on disk: the run that wrote it stands for the bytes;
\* classes is model.classes_ / label_encoder.classes_, schema the fitted columns.
Artifact(run, classes, schema) == [run |-> run, classes |-> classes, schema |-> schema]

(***************************** Trainer **************************************)
FixedColumns ==
  << Col("", "temperature"), Col("", "weather_code"), Col("", "month"),
     Col("", "season_code"), Col("", "is_weekend"), Col("", "feedback_score") >>

\* train_model.py 22-28: the fixed fields, then every ingredient column.
feature_columns_of(cols) ==
  FixedColumns \o [i \in 1..Len(cols) |-> Col("ingredient_", cols[i])]

\* LabelEncoder.fit: the sorted distinct labels.
fit_classes(rows) == SelectSeqIn(SoupOrder, {k.soup : k \in BagToSet(rows)})

\* ceil(0.2 * n), the size train_test_split gives the test partition.
n_test_of(n) == (n + 4) \div 5

LabelCount(rows, soup) == RowCount(rows, {k \in BagToSet(rows) : k.soup = soup})

\* train_test_split(..., stratify=y) raises ValueError.
stratify_fails(rows) ==
  LET cls == {k.soup : k \in BagToSet(rows)}
      n == len(rows)
  IN  \/ \E c \in cls : LabelCount(rows, c) < 2
      \/ n_test_of(n) < Cardinality(cls)
      \/ n - n_test_of(n) < Cardinality(cls)

TrainerIdle ==
  [pc |-> "idle", run |-> 0, history_df |-> EmptyBag, ingredient_cols |-> <<>>,
   feature_columns |-> <<>>, classes |-> <<>>, n_train |-> 0, n_test |-> -1,
   test_labels |-> {}, evaluated |-> FALSE, at |-> "", out |-> <<>>, exit |-> -1]

\* Runs do not overlap (single user, single process).
TrainStart ==
  /\ active = "none"
  /\ runs < MaxRuns
  /\ runs' = runs + 1
  /\ active' = "trainer"
  /\ tr' = [TrainerIdle EXCEPT !.pc = "load", !.run = runs + 1,
                               !.out = <<Line("banner", <<>>, 0)>>]
  /\ UNCHANGED <<disk, pr>>

\* Step 1: pd.read_csv; a missing file is an uncaught FileNotFoundError.
TrainLoad ==
  /\ active = "trainer" /\ tr.pc = "load"
  /\ IF historyExists
     THEN /\ tr' = [tr EXCEPT !.pc = "prepare", !.history_df = historyRows,
                     !.ingredient_cols = historyCols,
                     !.out = Append(@, Line("loaded", <<>>, len(historyRows)))]
          /\ UNCHANGED active
     ELSE /\ tr' = [tr EXCEPT !.pc = "crashed", !.at = tr.pc, !.exit = 1]
          /\ active' = "none"
  /\ UNCHANGED <<disk, runs, pr>>

\* Step 2: the feature schema and the label vocabulary.
TrainPrepare ==
  /\ active = "trainer" /\ tr.pc = "prepare"
  /\ tr' = [tr EXCEPT !.pc = "split",
              !.feature_columns = feature_columns_of(tr.ingredient_cols),
              !.classes = fit_classes(tr.history_df),
              !.out = Append(@, Line("features", <<>>, Len(feature_columns_of(tr.ingredient_cols))))]
  /\ UNCHANGED <<disk, runs, active, pr>>

\* The labels a partition of n rows drawn from the history can hold.
PartitionLabels(rows, n) ==
  {T \in SUBSET {k.soup : k \in BagToSet(rows)} :
     /\ T # {}
     /\ Cardinality(T) <= n
     /\ RowCount(rows, {k \in BagToSet(rows) : k.soup \in T}) >= n}

\* Step 3, at least EvalThreshold rows: stratified, else the random split.
SplitHoldOut ==
  /\ len(tr.history_df) >= EvalThreshold
  /\ \E T \in PartitionLabels(tr.history_df, n_test_of(len(tr.history_df))) :
       tr' = [tr EXCEPT !.pc = "fit",
                !.n_test = n_test_of(len(tr.history_df)),
                !.n_train = len(tr.history_df) - n_test_of(len(tr.history_df)),
                !.test_labels = T,
                !.out = Append(@, Line(IF stratify_fails(tr.history_df)
                                        THEN "split_random" ELSE "split_stratified",
                                       <<>>, n_test_of(len(tr.history_df))))]

\* Step 3, fewer rows: everything is fitted on, X_test is None.
SplitAll ==
  /\ len(tr.history_df) < EvalThreshold
  /\ tr' = [tr EXCEPT !.pc = "fit", !.n_train = len(tr.history_df), !.n_test = -1,
              !.out = Append(@, Line("split_all", <<>>, len(tr.history_df)))]

TrainSplit ==
  /\ active = "trainer" /\ tr.pc = "split"
  /\ (SplitHoldOut \/ SplitAll)
  /\ UNCHANGED <<disk, runs, active, pr>>

\* Step 4: model.fit; zero training rows is a ValueError.
TrainFit ==
  /\ active = "trainer" /\ tr.pc = "fit"
  /\ IF tr.n_train = 0
     THEN /\ tr' = [tr EXCEPT !.pc = "crashed", !.at = tr.pc, !.exit = 1]
          /\ active' = "none"
     ELSE /\ tr' = [tr EXCEPT !.pc = "evaluate", !.out = Append(@, Line("fit_done", <<>>, tr.n_train))]
          /\ UNCHANGED active
  /\ UNCHANGED <<disk, runs, pr>>

\* Step 5 with a held-out partition: accuracy, then classification_report with
\* target_names taken from y_test only; a predicted label that y_test lacks
\* makes the label count differ from len(target_names): ValueError.
EvaluateHeldOut ==
  /\ tr.n_test # -1
  /\ \E y_pred \in (SUBSET Range(tr.classes)) \ {{}} :
       /\ Cardinality(y_pred) <= tr.n_test
       /\ IF Cardinality(tr.test_labels \cup y_pred) # Cardinality(tr.test_labels)
          THEN /\ tr' = [tr EXCEPT !.pc = "crashed", !.at = tr.pc, !.exit = 1, !.evaluated = TRUE,
                          !.out = Append(@, Line("accuracy", <<>>, 0))]
               /\ active' = "none"
          ELSE /\ tr' = [tr EXCEPT !.pc = "importance", !.evaluated = TRUE,
                          !.out = Append(Append(@, Line("accuracy", <<>>, 0)),
                                         Line("report", <<>>, 0))]
               /\ UNCHANGED active

\* Step 5 without one: the skip is reported.
EvaluateSkipped ==
  /\ tr.n_test = -1
  /\ tr' = [tr EXCEPT !.pc = "importance", !.out = Append(@, Line("eval_skipped", <<>>, 0))]
  /\ UNCHANGED active

TrainEvaluate ==
  /\ active = "trainer" /\ tr.pc = "evaluate"
  /\ (EvaluateHeldOut \/ EvaluateSkipped)
  /\ UNCHANGED <<disk, runs, pr>>

\* Step 6: the five most important features are printed.
TrainImportance ==
  /\ active = "trainer" /\ tr.pc = "importance"
  /\ tr' = [tr EXCEPT !.pc = "dump_model", !.out = Append(@, Line("importance", <<>>, 0))]
  /\ UNCHANGED <<disk, runs, active, pr>>

\* Step 7: three separate joblib.dump calls, in this order.
TrainDumpModel ==
  /\ active = "trainer" /\ tr.pc = "dump_model"
  /\ modelFile' = Artifact(tr.run, tr.classes, tr.feature_columns)
  /\ tr' = [tr EXCEPT !.pc = "dump_encoder", !.out = Append(@, Line("saving", <<>>, 0))]
  /\ UNCHANGED <<history, encoderFile, featureFile, logWritable, log, runs, active, pr>>

TrainDumpEncoder ==
  /\ active = "trainer" /\ tr.pc = "dump_encoder"
  /\ encoderFile' = Artifact(tr.run, tr.classes, tr.feature_columns)
  /\ tr' = [tr EXCEPT !.pc = "dump_features"]
  /\ UNCHANGED <<history, modelFile, featureFile, logWritable, log, runs, active, pr>>

TrainDumpFeatures ==
  /\ active = "trainer" /\ tr.pc = "dump_features"
  /\ featureFile' = Artifact(tr.run, tr.classes, tr.feature_columns)
  /\ tr' = [tr EXCEPT !.pc = "finish"]
  /\ UNCHANGED <<history, modelFile, encoderFile, logWritable, log, runs, active, pr>>

\* Lines 131-157: the closing messages and the self-test frame; normal exit.
TrainFinish ==
  /\ active = "trainer" /\ tr.pc = "finish"
  /\ tr' = [tr EXCEPT !.pc = "done", !.exit = 0,
              !.out = Append(@, Line("saved", <<>>, Len(tr.classes)))]
  /\ active' = "none"
  /\ UNCHANGED <<disk, runs, pr>>

\* The operator interrupts the running Trainer (KeyboardInterrupt).
TrainAbort ==
  /\ active = "trainer"
  /\ tr' = [tr EXCEPT !.pc = "aborted", !.at = tr.pc, !.exit = 1]
  /\ active' = "none"
  /\ UNCHANGED <<disk, runs, pr>>

(***************************** Predictor ************************************)
\* What the user may type at the date prompt.
BlankDate == [kind |-> "blank", y |-> 0, m |-> 0, d |-> 0]
JunkDate == [kind |-> "junk", y |-> 0, m |-> 0, d |-> 0]
Date(y, m, d) == [kind |-> "date", y |-> y, m |-> m, d |-> d]

\* What the user may type at the temperature prompt.
BlankTemp == [kind |-> "blank", val |-> 0]
JunkTemp == [kind |-> "junk", val |-> 0]
Temp(v) == [kind |-> "num", val |-> v]

\* One comma-separated piece of the pantry line, before strip().
Token(pad, name) == [pad |-> pad, name |-> name]
strip(tok) == tok.name

MonthOffset == <<0, 3, 2, 5, 0, 3, 5, 1, 4, 6, 2, 4>>

\* datetime.isoweekday(): 1 = Monday .. 7 = Sunday.
isoweekday(date) ==
  LET y == IF date.m < 3 THEN date.y - 1 ELSE date.y
      dow == (y + (y \div 4) - (y \div 100) + (y \div 400)
                + MonthOffset[date.m] + date.d) % 7
  IN  IF dow = 0 THEN 7 ELSE dow

DigitStr == <<"1", "2", "3", "4", "5", "6", "7">>
str(n) == DigitStr[n]

\* predict.py 40.
weather_map ==
  [w \in {"qing", "duoyun", "yin", "yu", "xiaoyu", "chaoshi", "ganzao"} |->
     CASE w = "qing" -> 3
       [] w = "duoyun" -> 2
       [] w = "yin" -> 1
       [] w = "yu" -> 0
       [] w = "xiaoyu" -> 0
       [] w = "chaoshi" -> 1
       [] w = "ganzao" -> 3]

\* weather_map.get(weather_str, 2)
weather_code_of(w) ==
  IF w \in DOMAIN weather_map THEN weather_map[w] ELSE DefaultWeatherCode

\* predict.py 59.
season_of(month) ==
  IF month \in {3, 4, 5} THEN 1
  ELSE IF month \in {6, 7, 8} THEN 2
  ELSE IF month \in {9, 10, 11} THEN 3
  ELSE 4

\* predict.py 54.
is_weekend_of(weekday) == IF weekday \in {"6", "7"} THEN 1 ELSE 0

\* predict.py 67: the stripped, non-empty pieces, in order.
RECURSIVE inventory_list_of(_)
inventory_list_of(tokens) ==
  IF tokens = <<>> THEN <<>>
  ELSE (IF strip(Head(tokens)) # "" THEN <<strip(Head(tokens))>> ELSE <<>>)
         \o inventory_list_of(Tail(tokens))

RationaleWeekend == "weekend: time for a slow-cooked soup"
RationaleWeather == "overcast or rain: a warming soup"
RationaleCold == "cold: a nourishing warm soup"
RationaleHot == "hot: a light, cooling soup"

PredictorIdle ==
  [pc |-> "idle", run |-> 0, model |-> Absent, label_encoder |-> Absent,
   feature_columns |-> <<>>, date_input |-> BlankDate, weekday |-> "",
   weather_str |-> "", weather_code |-> 0, temp |-> 0, is_weekend |-> 0,
   month |-> 0, season |-> 0, inventory_list |-> <<>>,
   tomorrow_features |-> <<>>, probabilities |-> <<>>, top3_indices |-> <<>>,
   top3_soups |-> <<>>, top3_probs |-> <<>>, reasons |-> <<>>,
   typical_ingredients |-> <<>>, missing |-> <<>>, save_record |-> "",
   prompts |-> 0, at |-> "", loaded_from |-> <<0, 0, 0>>, log_at_start |-> 0,
   history_at_start |-> FALSE,
   out |-> <<>>, exit |-> -1]

\* An uncaught exception: the traceback, exit status 1.  at is the step it
\* ended in.
Crash(p) == [p EXCEPT !.pc = "crashed", !.at = p.pc, !.exit = 1]

PredictStart ==
  /\ active = "none"
  /\ runs < MaxRuns
  /\ runs' = runs + 1
  /\ active' = "predictor"
  /\ pr' = [PredictorIdle EXCEPT !.pc = "load", !.run = runs + 1,
                                 !.log_at_start = Len(log),
                                 !.history_at_start = historyExists,
                                 !.out = <<Line("banner", <<>>, 0)>>]
  /\ UNCHANGED <<disk, tr>>

\* Step 1: the three joblib.load calls inside try; FileNotFoundError prints
\* the remediation message and calls exit() with no argument (status 0).
PredictLoad ==
  /\ active = "predictor" /\ pr.pc = "load"
  /\ IF modelFile = Absent \/ encoderFile = Absent \/ featureFile = Absent
     THEN /\ pr' = [pr EXCEPT !.pc = "exited", !.exit = 0,
                     !.out = Append(@, Line("error_run_training_first", <<>>, 0))]
          /\ active' = "none"
     ELSE /\ pr' = [pr EXCEPT !.pc = "ask_date", !.model = modelFile,
                     !.label_encoder = encoderFile,
                     !.feature_columns = featureFile.schema,
                     !.loaded_from = <<modelFile.run, encoderFile.run, featureFile.run>>,
                     !.out = Append(@, Line("loaded", encoderFile.classes, 0))]
          /\ UNCHANGED active
  /\ UNCHANGED <<disk, runs, tr>>

\* Lines 26-31: the date prompt; blank means tomorrow's date.
PredictAskDate(dom) ==
  /\ active = "predictor" /\ pr.pc = "ask_date"
  /\ \E typed \in dom.dates, tomorrow \in dom.tomorrows :
       pr' = [pr EXCEPT !.pc = "ask_weekday", !.prompts = @ + 1,
                !.date_input = IF typed = BlankDate THEN tomorrow ELSE typed]
  /\ UNCHANGED <<disk, runs, active, tr>>

\* Lines 33-37: the weekday prompt; blank is derived from the date, and
\* strptime of a malformed date is an uncaught ValueError.
PredictAskWeekday(dom) ==
  /\ active = "predictor" /\ pr.pc = "ask_weekday"
  /\ \E typed \in dom.weekdays :
       IF typed = "" /\ pr.date_input.kind # "date"
       THEN /\ pr' = [Crash(pr) EXCEPT !.prompts = @ + 1]
            /\ active' = "none"
       ELSE /\ pr' = [pr EXCEPT !.pc = "ask_weather", !.prompts = @ + 1,
                       !.weekday = IF typed = "" THEN str(isoweekday(pr.date_input))
                                   ELSE typed]
            /\ UNCHANGED active
  /\ UNCHANGED <<disk, runs, tr>>

\* Lines 39-44: the weather prompt and its code.
PredictAskWeather(dom) ==
  /\ active = "predictor" /\ pr.pc = "ask_weather"
  /\ \E typed \in dom.weathers :
       pr' = [pr EXCEPT !.pc = "ask_temp", !.prompts = @ + 1,
                !.weather_str = typed, !.weather_code = weather_code_of(typed)]
  /\ UNCHANGED <<disk, runs, active, tr>>

\* Lines 46-60: the temperature prompt (float() of junk is an uncaught
\* ValueError), then is_weekend, month (strptime again) and season.
PredictAskTemp(dom) ==
  /\ active = "predictor" /\ pr.pc = "ask_temp"
  /\ \E typed \in dom.temps :
       IF typed.kind = "junk" \/ pr.date_input.kind # "date"
       THEN /\ pr' = [Crash(pr) EXCEPT !.prompts = @ + 1]
            /\ active' = "none"
       ELSE /\ pr' = [pr EXCEPT !.pc = "ask_inventory", !.prompts = @ + 1,
                       !.temp = IF typed.kind = "blank" THEN DefaultTemp ELSE typed.val,
                       !.is_weekend = is_weekend_of(pr.weekday),
                       !.month = pr.date_input.m,
                       !.season = season_of(pr.date_input.m)]
            /\ UNCHANGED active
  /\ UNCHANGED <<disk, runs, tr>>

\* The ingredient names the schema offers (line 64).
schema_ingredients(fc) ==
  LET RECURSIVE names(_)
      names(s) == IF s = <<>> THEN <<>>
                  ELSE (IF startswith_ingredient(Head(s)) THEN <<strip_prefix(Head(s))>>
                        ELSE <<>>) \o names(Tail(s))
  IN  names(fc)

\* Step 3: the pantry prompt.
PredictAskInventory(dom) ==
  /\ active = "predictor" /\ pr.pc = "ask_inventory"
  /\ \E typed \in dom.pantries :
       pr' = [pr EXCEPT !.pc = "build", !.prompts = @ + 1,
                !.inventory_list = inventory_list_of(typed),
                !.out = Append(@, Line("options", schema_ingredients(pr.feature_columns), 0))]
  /\ UNCHANGED <<disk, runs, active, tr>>

\* The flag with its two values swapped.
ingredient_flag_swapped(col, inventory) ==
  IF strip_prefix(col) \in Range(inventory) THEN 0 ELSE 1

\* Line 86: 1 if the ingredient is in the pantry list, else 0.
ingredient_flag(col, inventory) ==
  IF strip_prefix(col) \in Range(inventory) THEN 1 ELSE 0

\* Lines 73-86: the one-row frame, as a mapping from column to value.
tomorrow_data_of(p) ==
  LET base == { <<Col("", "temperature"), p.temp>>,
                <<Col("", "weather_code"), p.weather_code>>,
                <<Col("", "month"), p.month>>,
                <<Col("", "season_code"), p.season>>,
                <<Col("", "is_weekend"), p.is_weekend>>,
                <<Col("", "feedback_score"), DefaultFeedback>> }
      added == { <<p.feature_columns[i], ingredient_flag(p.feature_columns[i], p.inventory_list)>> :
                   i \in {j \in 1..Len(p.feature_columns) :
                            startswith_ingredient(p.feature_columns[j])} }
  IN  base \cup added

frame_columns(data) == {cv[1] : cv \in data}
frame_value(data, col) == (CHOOSE cv \in data : cv[1] = col)[2]

\* Line 89: the frame's values in schema order.
tomorrow_features_of(data, fc) == [i \in 1..Len(fc) |-> frame_value(data, fc[i])]

\* Step 4; a schema column the frame lacks is a KeyError.
PredictBuild ==
  /\ active = "predictor" /\ pr.pc = "build"
  /\ LET data == tomorrow_data_of(pr)
     IN  IF Range(pr.feature_columns) \subseteq frame_columns(data)
         THEN /\ pr' = [pr EXCEPT !.pc = "rank",
                         !.tomorrow_features = tomorrow_features_of(data, pr.feature_columns),
                         !.out = Append(@, Line("analysing", <<>>, 0))]
              /\ UNCHANGED active
         ELSE /\ pr' = Crash(pr)
              /\ active' = "none"
  /\ UNCHANGED <<disk, runs, tr>>

RECURSIVE SumOver(_, _)
SumOver(p, S) ==
  IF S = {} THEN 0
  ELSE LET i == CHOOSE j \in S : TRUE IN p[i] + SumOver(p, S \ {i})

\* The rows predict_proba can return for n classes: non-negative, summing to 1.
ProbVectors(n) ==
  {p \in [0..(n - 1) -> 0..ProbScale] : SumOver(p, 0..(n - 1)) = ProbScale}

AllProbVectors == UNION {ProbVectors(n) : n \in 1..Len(SoupOrder)}

Orders(n) == {s \in [1..n -> 0..(n - 1)] : \A i, j \in 1..n : i # j => s[i] # s[j]}

\* argsort with the comparison turned round.
argsort_descending(p) ==
  LET n == Cardinality(DOMAIN p)
  IN  {s \in Orders(n) : \A i, j \in 1..n : i < j => p[s[i]] >= p[s[j]]}

\* np.argsort(probabilities): an ascending order of the class indices.  The
\* default kind is not a stable sort, so any ascending order may come back.
argsort(p) ==
  LET n == Cardinality(DOMAIN p)
  IN  {s \in Orders(n) : \A i, j \in 1..n : i < j => p[s[i]] <= p[s[j]]}

\* order[-3:] with the [::-1] left out.
top3_not_reversed(order) ==
  SubSeq(order, Max(1, Len(order) - TopK + 1), Len(order))

\* order[-3:][::-1]
top3_indices_of(order) ==
  Reverse(SubSeq(order, Max(1, Len(order) - TopK + 1), Len(order)))

\* label_encoder.inverse_transform: classes_[i] for each index.
inverse_transform(enc, idxs) == [k \in 1..Len(idxs) |-> enc.classes[idxs[k] + 1]]
unseen_label(enc, idxs) == \E k \in 1..Len(idxs) : idxs[k] >= Len(enc.classes)

\* Step 5: one probability per class of the loaded model, the three largest,
\* their names (an index the vocabulary lacks is a ValueError) and values.
PredictRank(dom) ==
  /\ active = "predictor" /\ pr.pc = "rank"
  /\ \E p \in {q \in dom.probs : Cardinality(DOMAIN q) = Len(pr.model.classes)} :
       \E order \in argsort(p) :
         LET top == top3_indices_of(order)
         IN  IF unseen_label(pr.label_encoder, top)
             THEN /\ pr' = [Crash(pr) EXCEPT !.probabilities = p, !.top3_indices = top]
                  /\ active' = "none"
             ELSE /\ pr' = [pr EXCEPT !.pc = "report", !.probabilities = p,
                             !.top3_indices = top,
                             !.top3_soups = inverse_transform(pr.label_encoder, top),
                             !.top3_probs = [k \in 1..Len(top) |-> p[top[k]]]]
                  /\ UNCHANGED active
  /\ UNCHANGED <<disk, runs, tr>>

\* Lines 110-118.
reasons_of(is_weekend, weather_code, temp) ==
  (IF is_weekend # 0 THEN <<RationaleWeekend>> ELSE <<>>)
  \o (IF weather_code <= LowWeatherMax THEN <<RationaleWeather>> ELSE <<>>)
  \o (IF temp < ColdBelow THEN <<RationaleCold>>
      ELSE IF temp > HotAbove THEN <<RationaleHot>> ELSE <<>>)

\* Lines 100-121: what the first part of step 6 prints.
report_lines(p) ==
  << Line("result_header", <<>>, 0),
     Line("first_choice", <<p.top3_soups[1]>>, 0),
     Line("confidence", <<>>, p.top3_probs[1]),
     Line("reason_label", <<>>, 0),
     Line("inventory", p.inventory_list, 0) >>

\* Step 6, first part: the first recommendation and the rationale list.
PredictReport ==
  /\ active = "predictor" /\ pr.pc = "report"
  /\ pr' = [pr EXCEPT !.pc = "explain",
              !.reasons = reasons_of(pr.is_weekend, pr.weather_code, pr.temp),
              !.out = @ \o report_lines(pr)]
  /\ UNCHANGED <<disk, runs, active, tr>>

\* history_df[history_df['soup'] == name]
soup_history_of(rows, soup) ==
  LET S == {k \in BagToSet(rows) : k.soup = soup}
  IN  [k \in S |-> CopiesIn(k, rows)]

\* The comparison with the half included.
mean_ge_half(rows, name) ==
  2 * RowCount(rows, {k \in BagToSet(rows) : name \in k.ings}) >= len(rows)

\* soup_history[col].mean() > 0.5 for a 0/1 column.
mean_gt_half(rows, name) ==
  2 * RowCount(rows, {k \in BagToSet(rows) : name \in k.ings}) > len(rows)

RECURSIVE typical_ingredients_of(_, _)
typical_ingredients_of(fc, rows) ==
  IF fc = <<>> THEN <<>>
  ELSE (IF startswith_ingredient(Head(fc)) /\ mean_gt_half(rows, strip_prefix(Head(fc)))
        THEN <<strip_prefix(Head(fc))>> ELSE <<>>)
         \o typical_ingredients_of(Tail(fc), rows)

\* Line 140.
missing_of(typical, inventory) == SelectSeq(typical, LAMBDA ing : ing \notin Range(inventory))

explain_lines(typical, missing) ==
  << Line("typical", typical, 0),
     IF missing # <<>> THEN Line("missing", missing, 0) ELSE Line("ready_to_cook", <<>>, 0) >>

\* Lines 123-146: read_csv (a missing file is an uncaught FileNotFoundError),
\* the rows of the first recommendation, its typical and missing ingredients.
\* A schema ingredient that is no column of the file is a KeyError.
PredictExplain ==
  /\ active = "predictor" /\ pr.pc = "explain"
  /\ LET soup_history == soup_history_of(historyRows, pr.top3_soups[1])
         typical == typical_ingredients_of(pr.feature_columns, soup_history)
         missing == missing_of(typical, pr.inventory_list)
         header == Line("to_cook", <<pr.top3_soups[1]>>, 0)
     IN  IF ~historyExists
         THEN /\ pr' = [Crash(pr) EXCEPT !.out = Append(@, header)]
              /\ active' = "none"
         ELSE IF len(soup_history) = 0
         THEN /\ pr' = [pr EXCEPT !.pc = "alternatives",
                         !.out = @ \o <<header, Line("see_history", <<>>, 0)>>]
              /\ UNCHANGED active
         ELSE IF ~(Range(schema_ingredients(pr.feature_columns)) \subseteq Range(historyCols))
         THEN /\ pr' = [Crash(pr) EXCEPT !.out = Append(@, header)]
              /\ active' = "none"
         ELSE /\ pr' = [pr EXCEPT !.pc = "alternatives",
                         !.typical_ingredients = typical, !.missing = missing,
                         !.out = @ \o <<header>> \o explain_lines(typical, missing)]
              /\ UNCHANGED active
  /\ UNCHANGED <<disk, runs, tr>>

\* top3_probs[i] > 0.05
above_display_threshold(prob) == 20 * prob > ProbScale

RECURSIVE alternative_lines(_, _)
alternative_lines(p, i) ==
  IF i > Len(p.top3_soups) THEN <<>>
  ELSE (IF above_display_threshold(p.top3_probs[i])
        THEN <<Line("alternative", <<p.top3_soups[i]>>, p.top3_probs[i])>> ELSE <<>>)
         \o alternative_lines(p, i + 1)

\* Lines 148-157: the other candidates above 5 %, then the closing hint.
PredictAlternatives ==
  /\ active = "predictor" /\ pr.pc = "alternatives"
  /\ pr' = [pr EXCEPT !.pc = "ask_save",
              !.out = @ \o (IF Len(pr.top3_soups) > 1
                            THEN <<Line("alternatives_header", <<>>, 0)>>
                                   \o alternative_lines(pr, 2)
                            ELSE <<>>)
                        \o <<Line("hint", <<>>, 0)>>]
  /\ UNCHANGED <<disk, runs, active, tr>>

\* str.lower() on the answers the user may type.
lower(s) == IF s = "Y" THEN "y" ELSE s

PredictionRecord(p) ==
  [date |-> p.date_input, soup |-> p.top3_soups[1], prob |-> p.top3_probs[1],
   weather |-> p.weather_str, temp |-> p.temp]

\* Lines 159-165: the save prompt; on 'y' the log is opened for append with no
\* handler around it, so a file that cannot be opened is an uncaught OSError.
PredictSave(dom) ==
  /\ active = "predictor" /\ pr.pc = "ask_save"
  /\ \E typed \in dom.saves :
       IF lower(typed) = "y"
       THEN IF logWritable
            THEN /\ log' = Append(log, PredictionRecord(pr))
                 /\ pr' = [pr EXCEPT !.pc = "done", !.exit = 0, !.prompts = @ + 1,
                             !.save_record = lower(typed),
                             !.out = Append(@, Line("saved", <<>>, 0))]
            ELSE /\ pr' = [Crash(pr) EXCEPT !.prompts = @ + 1, !.save_record = lower(typed)]
                 /\ UNCHANGED log
       ELSE /\ pr' = [pr EXCEPT !.pc = "done", !.exit = 0, !.prompts = @ + 1,
                       !.save_record = lower(typed)]
            /\ UNCHANGED log
  /\ active' = "none"
  /\ UNCHANGED <<history, artifacts, logWritable, runs, tr>>

\* The operator interrupts the running Predictor.
PredictAbort ==
  /\ active = "predictor"
  /\ pr' = [pr EXCEPT !.pc = "aborted", !.at = pr.pc, !.exit = 1]
  /\ active' = "none"
  /\ UNCHANGED <<disk, runs, tr>>

(***************************** environment **********************************)
Row(soup, ings) == [soup |-> soup, ings |-> ings]

\* Between runs a cooking event is appended to the history file.
EnvAppendRecord(kinds, cap) ==
  /\ active = "none"
  /\ historyExists
  /\ len(historyRows) < cap
  /\ \E k \in kinds : historyRows' = historyRows (+) SetToBag({k})
  /\ UNCHANGED <<historyExists, historyCols, artifacts, logWritable, log, runs, active, tr, pr>>

\* Between runs the history file is removed.
EnvRemoveHistory ==
  /\ active = "none"
  /\ historyExists
  /\ historyExists' = FALSE
  /\ UNCHANGED <<historyCols, historyRows, artifacts, logWritable, log, runs, active, tr, pr>>

(************************** specifications **********************************)
\* The artifacts a completed Trainer run leaves for the given history.
Trained(run, rows, cols) == Artifact(run, fit_classes(rows), feature_columns_of(cols))

\* All bags of at most n rows over the kinds in K.
RECURSIVE BagsUpTo(_, _)
BagsUpTo(K, n) ==
  IF n = 0 THEN {EmptyBag}
  ELSE LET smaller == BagsUpTo(K, n - 1)
       IN  smaller \cup {b (+) SetToBag({k}) : b \in smaller, k \in K}

AllColumns == <<"ribs", "corn", "carrot">>

\* The answers a user gives in the whole-system specification.
SmallDom ==
  [dates |-> {BlankDate, JunkDate},
   tomorrows |-> {Date(2024, 6, 15)},
   weekdays |-> {"", "3"},
   weathers |-> {"yu"},
   temps |-> {BlankTemp, JunkTemp, Temp(10)},
   pantries |-> {<<Token(FALSE, "ribs"), Token(TRUE, "corn")>>},
   probs |-> AllProbVectors,
   saves |-> {"Y", "n"}]

SmallKinds == {Row("lotus_soup", {"ribs", "corn", "carrot"}), Row("melon_soup", {})}

\* The whole system: Trainer and Predictor runs over one set of files, the
\* history growing or disappearing between runs.
Init ==
  /\ historyExists \in BOOLEAN
  /\ historyCols = AllColumns
  /\ historyRows = EmptyBag
  /\ modelFile = Absent /\ encoderFile = Absent /\ featureFile = Absent
  /\ logWritable \in BOOLEAN
  /\ log = <<>>
  /\ runs = 0
  /\ active = "none"
  /\ tr = TrainerIdle
  /\ pr = PredictorIdle

TrainerStep ==
  \/ TrainStart \/ TrainLoad \/ TrainPrepare \/ TrainSplit \/ TrainFit
  \/ TrainEvaluate \/ TrainImportance \/ TrainDumpModel \/ TrainDumpEncoder
  \/ TrainDumpFeatures \/ TrainFinish \/ TrainAbort

PredictorStep(dom) ==
  \/ PredictStart \/ PredictLoad \/ PredictAskDate(dom) \/ PredictAskWeekday(dom)
  \/ PredictAskWeather(dom) \/ PredictAskTemp(dom) \/ PredictAskInventory(dom)
  \/ PredictBuild \/ PredictRank(dom) \/ PredictReport \/ PredictExplain
  \/ PredictAlternatives \/ PredictSave(dom) \/ PredictAbort

Next ==
  \/ TrainerStep
  \/ PredictorStep(SmallDom)
  \/ EnvAppendRecord(SmallKinds, MaxSmallHistory)
  \/ EnvRemoveHistory

Spec == Init /\ [][Next]_vars

\* The state one completed Trainer run over the given history leaves behind,
\* with one run still to start.
TrainedInit(Histories, Columns) ==
  /\ historyExists = TRUE
  /\ historyCols \in Columns
  /\ historyRows \in Histories
  /\ modelFile = Trained(MaxRuns - 1, historyRows, historyCols)
  /\ encoderFile = Trained(MaxRuns - 1, historyRows, historyCols)
  /\ featureFile = Trained(MaxRuns - 1, historyRows, historyCols)
  /\ logWritable = TRUE
  /\ log = <<>>
  /\ runs = MaxRuns - 1
  /\ active = "none"
  /\ tr = TrainerIdle
  /\ pr = PredictorIdle

\* --- one Trainer run over histories of up to MaxRecords rows ---------------
TrainKinds ==
  {Row("lotus_soup", {"ribs"}), Row("melon_soup", {}), Row("ribs_soup", {"ribs", "corn"})}

InitTrain ==
  /\ historyExists \in BOOLEAN
  /\ historyCols = AllColumns
  /\ historyRows \in BagsUpTo(TrainKinds, MaxRecords)
  /\ modelFile = Absent /\ encoderFile = Absent /\ featureFile = Absent
  /\ logWritable = TRUE
  /\ log = <<>>
  /\ runs = MaxRuns - 1
  /\ active = "none"
  /\ tr = TrainerIdle
  /\ pr = PredictorIdle

NextTrain == TrainerStep

SpecTrain == InitTrain /\ [][NextTrain]_vars

\* --- one Predictor run, every probability row the classifier can return ----
PlainDom ==
  [dates |-> {Date(2024, 2, 1)},
   tomorrows |-> {Date(2024, 6, 15)},
   weekdays |-> {""},
   weathers |-> {"qing"},
   temps |-> {BlankTemp},
   pantries |-> {<<Token(FALSE, "ribs")>>},
   probs |-> {[i \in 0..0 |-> ProbScale]},
   saves |-> {"n"}]

RankDom == [PlainDom EXCEPT !.probs = AllProbVectors]

RankHistories ==
  {SetToBag({Row(soup, {}) : soup \in L}) : L \in (SUBSET SoupNames) \ {{}}}

InitRank == TrainedInit(RankHistories, {AllColumns})

NextRank == PredictorStep(RankDom)

SpecRank == InitRank /\ [][NextRank]_vars

\* --- one Predictor run, every schema and every kind of console answer ------
ColumnOrders ==
  {s \in UNION {[1..n -> IngredientNames] : n \in 0..Cardinality(IngredientNames)} :
     \A i, j \in 1..Len(s) : i # j => s[i] # s[j]}

PantryTokens ==
  {Token(FALSE, "ribs"), Token(TRUE, "corn"), Token(FALSE, "carrot"),
   Token(TRUE, UnknownIngredient), Token(TRUE, "")}

EncodeDom ==
  [PlainDom EXCEPT
     !.dates = {BlankDate, JunkDate, Date(2024, 2, 1), Date(2024, 10, 6)},
     !.weekdays = {"", "6", "2"},
     !.weathers = {"yu", "qing", "fog"},
     !.temps = {BlankTemp, JunkTemp, Temp(10), Temp(30)},
     !.pantries = UNION {[1..n -> PantryTokens] : n \in 0..2}]

InitEncode == TrainedInit({SetToBag({Row("lotus_soup", {})})}, ColumnOrders)

NextEncode == PredictorStep(EncodeDom)

SpecEncode == InitEncode /\ [][NextEncode]_vars

\* --- one Predictor run, every small history and pantry ---------------------
LookupKinds ==
  {Row("lotus_soup", ings) : ings \in SUBSET IngredientNames} \cup {Row("melon_soup", {})}

ExplainDom ==
  [PlainDom EXCEPT
     !.pantries = {<<>>, <<Token(FALSE, "ribs"), Token(TRUE, "corn")>>,
                   <<Token(FALSE, "carrot"), Token(FALSE, UnknownIngredient)>>,
                   <<Token(FALSE, "ribs"), Token(FALSE, "corn"), Token(TRUE, "carrot")>>},
     !.probs = {q \in AllProbVectors : Cardinality(DOMAIN q) <= 2}]

InitExplain == TrainedInit(BagsUpTo(LookupKinds, MaxLookupRecords) \ {EmptyBag}, {AllColumns})

NextExplain == PredictorStep(ExplainDom) \/ EnvAppendRecord(LookupKinds, MaxLookupRecords)

SpecExplain == InitExplain /\ [][NextExplain]_vars

(******************************* claims *************************************)
Tags(out) == {out[i].tag : i \in 1..Len(out)}
LinesTagged(out, tag) == {i \in 1..Len(out) : out[i].tag = tag}
AfterRank == {"report", "explain", "alternatives", "ask_save", "done"}

\* The Predictor has ranked: top3_soups holds names.
Ranked == pr.pc \in AfterRank \/ (pr.pc \in {"crashed", "aborted"} /\ pr.at \in AfterRank)

PositionIn(top, c) == CHOOSE k \in 1..Len(top) : top[k] = c

\* C1: for every probability row over n >= 1 trained classes the ranked list
\* holds exactly min(3, n) distinct classes, they are the most probable ones,
\* they are in non-increasing order of probability, and each is reported under
\* the name the loaded label vocabulary gives its class index.
C1_Top3Ranking ==
  Ranked =>
    LET p == pr.probabilities
        n == Len(pr.model.classes)
        top == pr.top3_indices
        chosen == Range(top)
    IN  /\ n >= 1
        /\ DOMAIN p = 0..(n - 1)
        /\ Len(top) = (IF n < 3 THEN n ELSE 3)
        /\ Cardinality(chosen) = Len(top)
        /\ chosen \subseteq 0..(n - 1)
        /\ \A c \in (0..(n - 1)) \ chosen : \A t \in chosen : p[c] <= p[t]
        /\ \A k \in 1..(Len(top) - 1) : p[top[k]] >= p[top[k + 1]]
        /\ Len(pr.top3_soups) = Len(top) /\ Len(pr.top3_probs) = Len(top)
        /\ \A k \in 1..Len(top) :
             /\ pr.top3_soups[k] = pr.label_encoder.classes[top[k] + 1]
             /\ pr.top3_probs[k] = p[top[k]]

\* C1 witness: four classes, three of them ranked with strictly falling
\* probabilities.
C1_Witness ==
  /\ pr.pc = "report"
  /\ Len(encoderFile.classes) = 4
  /\ Len(pr.top3_indices) = 3
  /\ pr.top3_probs[1] > pr.top3_probs[2]
  /\ pr.top3_probs[2] > pr.top3_probs[3]

\* C2 as stated: among equally probable classes the lower class index is
\* ranked first, and at the cut-off the lower-indexed class is the one chosen.
C2_StableTieBreak ==
  Ranked =>
    LET p == pr.probabilities
        top == pr.top3_indices
        chosen == Range(top)
    IN  /\ \A k, l \in 1..Len(top) :
             (k < l /\ p[top[k]] = p[top[l]]) => top[k] < top[l]
        /\ \A c \in (DOMAIN p) \ chosen : \A t \in chosen : p[c] = p[t] => t < c

\* C2 amended: the class index plays no part in the order; what is kept is
\* that a strictly more probable class is chosen whenever a less probable one
\* is, and stands before it.
C2_StrictOrderOnly ==
  Ranked =>
    LET p == pr.probabilities
        top == pr.top3_indices
        chosen == Range(top)
    IN  \A i, j \in DOMAIN p :
          (p[i] > p[j] /\ j \in chosen) =>
            (i \in chosen /\ PositionIn(top, i) < PositionIn(top, j))

\* C2 witness: two equally probable classes ranked with the higher class
\* index first, next to a class of another probability.
C2_Witness ==
  /\ pr.pc = "report"
  /\ \E k \in 1..(Len(pr.top3_indices) - 1) :
       /\ pr.top3_probs[k] = pr.top3_probs[k + 1]
       /\ pr.top3_indices[k] > pr.top3_indices[k + 1]
  /\ \E i, j \in DOMAIN pr.probabilities : pr.probabilities[i] > pr.probabilities[j]

\* The Predictor got past the artifact loading.
Loaded == pr.pc \notin {"idle", "load", "exited"} /\ ~(pr.pc = "aborted" /\ pr.at = "load")
MatchedTriple == pr.loaded_from[1] = pr.loaded_from[2] /\ pr.loaded_from[2] = pr.loaded_from[3]

\* C3 as stated: whatever Trainer and Predictor runs came before, completed
\* or interrupted, the classifier, vocabulary and schema a Predictor run has
\* loaded were written by one and the same Trainer run.
C3_LoadedTripleMatched == Loaded => MatchedTriple

\* C4 as stated: once the user has confirmed saving, a log that cannot be
\* written leaves the run a normal completion (status 0) with the prediction
\* reported exactly once; without confirmation the log is as the run found it.
C4_LogFailureNonFatal ==
  /\ (pr.save_record = "y" /\ ~logWritable) =>
       /\ pr.pc = "done" /\ pr.exit = 0
       /\ Cardinality(LinesTagged(pr.out, "first_choice")) = 1
  /\ (pr.pc = "done" /\ pr.save_record # "y") => Len(log) = pr.log_at_start

AllRationales == {RationaleWeekend, RationaleWeather, RationaleCold, RationaleHot}

\* The rationales the console output shows.
ReportedRationales(out) ==
  {r \in AllRationales : \E i \in 1..Len(out) : r \in Range(out[i].items)}

\* C5 as stated: once the first recommendation is out, the rationales shown
\* to the user are exactly those whose rule matches the input features.
C5_RationalesReported ==
  pr.pc \in {"explain", "alternatives", "ask_save", "done"} =>
    ReportedRationales(pr.out) =
      {r \in AllRationales :
         \/ r = RationaleWeekend /\ pr.is_weekend = 1
         \/ r = RationaleWeather /\ pr.weather_code <= 1
         \/ r = RationaleCold /\ pr.temp < 15
         \/ r = RationaleHot /\ pr.temp > 28}

\* C9 as stated: with any artifact absent the run prints the run-training
\* message before any prompt, prediction or log entry, and ends as a failure.
C9_MissingArtifactFails ==
  pr.pc = "exited" =>
    /\ "error_run_training_first" \in Tags(pr.out)
    /\ pr.prompts = 0
    /\ pr.top3_soups = <<>>
    /\ "first_choice" \notin Tags(pr.out)
    /\ Len(log) = pr.log_at_start
    /\ pr.exit # 0

InputSteps == {"ask_weekday", "ask_temp"}

\* What C10 says of a run that started with the history file absent and got
\* past the loading with the given triple condition: valid inputs given, it
\* fails only in the missing-ingredients step, the first recommendation and
\* its probability are on the console by then, the run goes no further, and
\* the log is as the run found it.
RankingSurvives(triple_ok) ==
  (Loaded /\ triple_ok /\ ~pr.history_at_start) =>
    /\ pr.pc = "crashed" => pr.at \in InputSteps \cup {"explain"}
    /\ pr.pc \notin {"alternatives", "ask_save", "done"}
    /\ (pr.pc = "crashed" /\ pr.at = "explain") =>
         /\ \E i \in LinesTagged(pr.out, "first_choice") :
              /\ pr.out[i].items = <<pr.label_encoder.classes[pr.top3_indices[1] + 1]>>
              /\ \A t \in DOMAIN pr.probabilities :
                   pr.probabilities[t] <= pr.probabilities[pr.top3_indices[1]]
         /\ \E i \in LinesTagged(pr.out, "confidence") :
              pr.out[i].num = pr.probabilities[pr.top3_indices[1]]
         /\ pr.exit = 1
         /\ pr.save_record = ""
    /\ Len(log) = pr.log_at_start

\* C10 as stated: the three artifacts are present (the run loaded them) and
\* the history file is absent.
C10_RankingSurvivesMissingHistory == RankingSurvives(TRUE)

\* C10 restricted to a triple written by one Trainer run: the case in which
\* the statement holds.
C10_HoldsForMatchedTriple == RankingSurvives(MatchedTriple)

\* A run over a matched triple that stopped in the missing-ingredients step.
C10_MatchedWitness ==
  /\ pr.pc = "crashed" /\ pr.at = "explain"
  /\ MatchedTriple /\ ~pr.history_at_start
  /\ Len(pr.label_encoder.classes) = 2
  /\ "first_choice" \in Tags(pr.out)

(* ---- C6 ---- *)
SchemaIngredients == {c.name : c \in {d \in Range(pr.feature_columns) : d.prefix = "ingredient_"}}
TopSoup == pr.top3_soups[1]
RecordsOfTop ==
  BagCardinality([k \in {r \in BagToSet(historyRows) : r.soup = TopSoup}
                    |-> CopiesIn(k, historyRows)])
RecordsOfTopWith(ing) ==
  BagCardinality([k \in {r \in BagToSet(historyRows) : r.soup = TopSoup /\ ing \in r.ings}
                    |-> CopiesIn(k, historyRows)])

\* C6: while the run stands past the explanation step and the first
\* recommendation has at least one historical record, the typical ingredients
\* are exactly the schema ingredients present in strictly more than half of
\* that soup's records, the missing ones are exactly the typical ones not in
\* the pantry, a non-empty missing set is printed as such, and "ready to cook"
\* is printed iff it is empty.
C6_TypicalAndMissing ==
  (active = "predictor" /\ pr.pc \in {"alternatives", "ask_save"} /\ RecordsOfTop >= 1) =>
    LET typical == {ing \in SchemaIngredients : 2 * RecordsOfTopWith(ing) > RecordsOfTop}
        absent == typical \ Range(pr.inventory_list)
    IN  /\ Range(pr.typical_ingredients) = typical
        /\ Range(pr.missing) = absent
        /\ \E i \in LinesTagged(pr.out, "typical") : Range(pr.out[i].items) = typical
        /\ absent # {} =>
             \E i \in LinesTagged(pr.out, "missing") : Range(pr.out[i].items) = absent
        /\ ("ready_to_cook" \in Tags(pr.out)) <=> (absent = {})
        /\ ("missing" \in Tags(pr.out)) <=> (absent # {})

\* C6 witness: typical {ribs, corn, carrot}, pantry {ribs, corn}: exactly
\* carrot is reported missing.
C6_Witness ==
  /\ active = "predictor" /\ pr.pc = "alternatives"
  /\ Range(pr.typical_ingredients) = {"ribs", "corn", "carrot"}
  /\ Range(pr.inventory_list) = {"ribs", "corn"}
  /\ pr.missing = <<"carrot">>
  /\ RecordsOfTop = 3
  /\ RecordsOfTopWith("carrot") = 2

(* ---- C7 ---- *)
BuiltSteps == {"rank"} \cup AfterRank
Built == pr.pc \in BuiltSteps \/ (pr.pc \in {"crashed", "aborted"} /\ pr.at \in BuiltSteps)

\* C7: the vector handed to the classifier has one entry per schema column,
\* in schema order: each fixed column carries its input, each ingredient
\* column 1 iff its ingredient is in the pantry list; dropping the pantry names
\* the schema lacks gives the same vector, and the build step never fails.
C7_EncodedPerSchema ==
  /\ ~(pr.pc = "crashed" /\ pr.at = "build")
  /\ Built =>
       LET S == featureFile.schema
           v == pr.tomorrow_features
           pantry == Range(pr.inventory_list)
           known == [pr EXCEPT !.inventory_list =
                       SelectSeq(pr.inventory_list, LAMBDA x : x \in SchemaIngredients)]
       IN  /\ Len(v) = Len(S)
           /\ \A i \in 1..Len(S) :
                IF S[i].prefix = "ingredient_"
                THEN v[i] = (IF S[i].name \in pantry THEN 1 ELSE 0)
                ELSE CASE S[i].name = "temperature" -> v[i] = pr.temp
                       [] S[i].name = "weather_code" -> v[i] = pr.weather_code
                       [] S[i].name = "month" -> v[i] = pr.month
                       [] S[i].name = "season_code" -> v[i] = pr.season
                       [] S[i].name = "is_weekend" -> v[i] = pr.is_weekend
                       [] S[i].name = "feedback_score" -> v[i] = 75
           /\ v = tomorrow_features_of(tomorrow_data_of(known), S)

\* C7 witness: a schema with three ingredient columns, one of them in the
\* pantry and one not, and a pantry name the schema does not know.
C7_Witness ==
  /\ pr.pc = "rank"
  /\ Len(featureFile.schema) = 9
  /\ UnknownIngredient \in Range(pr.inventory_list)
  /\ \E i, j \in 7..9 : pr.tomorrow_features[i] = 1 /\ pr.tomorrow_features[j] = 0

(* ---- C8 ---- *)
TrainSteps ==
  <<"load", "prepare", "split", "fit", "evaluate", "importance", "dump_model",
    "dump_encoder", "dump_features", "finish", "done">>
StepNo(step) == CHOOSE i \in 1..Len(TrainSteps) : TrainSteps[i] = step
\* The step the Trainer stands at, or ended in.
TrainerAt == IF tr.pc \in {"crashed", "aborted"} THEN tr.at ELSE tr.pc
TrainerPast(step) == tr.pc # "idle" /\ StepNo(TrainerAt) > StepNo(step)
WrittenByThisRun(file) == file.run = tr.run /\ file.run # 0

====
